---- MODULE Spec2Model ----
(***************************************************************************)
(* Grid-trading target screener: find_grid_target.py (ETF scan) and        *)
(* find_grid_target_stock.py (A-share scan).                               *)
(*                                                                         *)
(* Numbers.  Prices are whole currency units, volumes are counted in lots  *)
(* of VolumeLot shares, so a turnover is an integer number of VolumeLot    *)
(* currency units.  Every quantity a gate compares (mean turnover,         *)
(* amplitude, trend slope, choppiness) is an exact rational <<num, den>>.  *)
(* Only the values written into a record (round(..)) and the composite     *)
(* score, which needs a square root, are decimal fixed-point numbers.      *)
(* TLC stops with an overflow error if an intermediate leaves 32 bits, so  *)
(* no result below rests on a wrapped integer.                             *)
(***************************************************************************)
EXTENDS Integers, Sequences, FiniteSets, TLC

VARIABLES
    mode,       \* "pipe": one series through fetch + metrics; "scan": a market scan
    cls,        \* "etf" (find_grid_target.py) or "stock" (find_grid_target_stock.py)
    pc,         \* position of the running function
    prof,       \* pipe: the provider's answer for the instrument
    hist_df,    \* pipe: what get_*_hist_sina_safe returned
    metrics,    \* pipe: what calculate_*_grid_metrics returned
    listing,    \* scan: what the listing provider answers
    spot,       \* scan: etf_spot / stock_list, the table the scan iterates
    count,      \* scan: the loop's count
    results,    \* scan: the loop's results list
    valid_count,\* scan: the loop's valid_count
    calls,      \* scan: History Provider calls made so far, <<row, symbol>>
    progress,   \* scan: counts for which a progress line was printed
    final_df,   \* scan: the table returned
    csv         \* scan: the exported file, or NoFile

vars == <<mode, cls, pc, prof, hist_df, metrics, listing, spot, count, results,
          valid_count, calls, progress, final_df, csv>>

-----------------------------------------------------------------------------
(* Integer and rational helpers                                            *)

Abs(x) == IF x < 0 THEN 0 - x ELSE x

Min(a, b) == IF a < b THEN a ELSE b

RECURSIVE GCD(_, _)
GCD(a, b) == IF b = 0 THEN a ELSE GCD(b, a % b)

RECURSIVE Pow10(_)
Pow10(k) == IF k = 0 THEN 1 ELSE 10 * Pow10(k - 1)

\* n/d in lowest terms, d > 0
Rat(n, d) ==
    LET g == GCD(Abs(n), d)
    IN  IF n < 0 THEN <<0 - (Abs(n) \div g), d \div g>> ELSE <<n \div g, d \div g>>

RAdd(a, b) ==
    LET g == GCD(a[2], b[2])
    IN  Rat(a[1] * (b[2] \div g) + b[1] * (a[2] \div g), (a[2] \div g) * b[2])

RNeg(a) == <<0 - a[1], a[2]>>

RSub(a, b) == RAdd(a, RNeg(b))

RAbs(a) == <<Abs(a[1]), a[2]>>

RMul(a, b) ==
    LET g1 == GCD(Abs(a[1]), b[2])
        g2 == GCD(Abs(b[1]), a[2])
    IN  Rat((a[1] \div g1) * (b[1] \div g2), (a[2] \div g2) * (b[2] \div g1))

\* a / b, b > 0
RDiv(a, b) == RMul(a, <<b[2], b[1]>>)

RInt(n) == <<n, 1>>

RLess(a, b) == a[1] * b[2] < b[1] * a[2]

RLeq(a, b) == ~RLess(b, a)

\* a function on 1..n as an evaluated sequence (TLC otherwise re-evaluates the
\* function's body at every application)
AsSeq(f) == SubSeq(f, 1, Len(f))

\* the sum of f[lo..hi], halving the range
RECURSIVE SumRange(_, _, _)
SumRange(f, lo, hi) ==
    IF lo > hi THEN 0
    ELSE IF lo = hi THEN f[lo]
    ELSE LET mid == (lo + hi) \div 2
         IN  SumRange(f, lo, mid) + SumRange(f, mid + 1, hi)

RECURSIVE RSumRange(_, _, _)
RSumRange(f, lo, hi) ==
    IF lo > hi THEN RInt(0)
    ELSE IF lo = hi THEN f[lo]
    ELSE LET mid == (lo + hi) \div 2
         IN  RAdd(RSumRange(f, lo, mid), RSumRange(f, mid + 1, hi))

\* floor(rem / den * 10^k) for 0 <= rem < den, one decimal digit at a time
RECURSIVE Digits(_, _, _)
Digits(rem, den, k) ==
    IF k = 0 THEN 0
    ELSE ((rem * 10) \div den) * Pow10(k - 1) + Digits((rem * 10) % den, den, k - 1)

\* floor(r * 10^k) for r >= 0
Fix(r, k) == (r[1] \div r[2]) * Pow10(k) + Digits(r[1] % r[2], r[2], k)

\* floor(sqrt(n)) by bisection
RECURSIVE ISqrtIn(_, _, _)
ISqrtIn(n, lo, hi) ==
    IF lo = hi THEN lo
    ELSE LET mid == (lo + hi + 1) \div 2
         IN  IF mid * mid <= n THEN ISqrtIn(n, mid, hi) ELSE ISqrtIn(n, lo, mid - 1)

ISqrt(n) == ISqrtIn(n, 0, Min(n, 46340))

-----------------------------------------------------------------------------
(* Program constants                                                       *)

MIN_YEARS == 3
MIN_AVG_TURNOVER == 200000000
ETF_MIN_AVG_TURNOVER == 50000000
MAX_SCAN_COUNT == 5500
TradingDaysPerYear == 240
DaysPerYear == 365
LiquidityWindow == 20
MAWindow == 120
EtfProgressEvery == 50
StockProgressEvery == 100

MIN_DAILY_AMPLITUDE == <<3, 1>>
ETF_MIN_DAILY_AMPLITUDE == <<3, 2>>
MIN_CHOPPINESS == <<9, 10>>
MAX_TREND_SLOPE == <<1, 20>>
Epsilon == <<1, 10000>>
PenaltyFloor == <<1, 10>>

\* shares per volume unit of the model; both turnover thresholds are multiples
VolumeLot == 100 * 1000

\* a missing cell (NaN / None) of a data frame
NaN == -1

\* a cell of the provider's table that pd.to_numeric cannot parse
RawJunk == -2

None == [ok |-> FALSE]

-----------------------------------------------------------------------------
(* pandas operations on a data frame: a sequence of rows                   *)

\* pd.to_numeric(col, errors='coerce') on one cell
to_numeric(v) == IF v >= 0 THEN v ELSE NaN

CoerceRow(r) ==
    [r EXCEPT !.open = to_numeric(r.open), !.close = to_numeric(r.close),
              !.high = to_numeric(r.high), !.low = to_numeric(r.low),
              !.volume = to_numeric(r.volume)]

\* df[mask].reset_index(drop=True): the rows lo..hi whose keep entry is true, in order
RECURSIVE FilterRange(_, _, _, _)
FilterRange(df, keep, lo, hi) ==
    IF lo > hi THEN <<>>
    ELSE IF lo = hi THEN (IF keep[lo] THEN <<df[lo]>> ELSE <<>>)
    ELSE LET mid == (lo + hi) \div 2
         IN  FilterRange(df, keep, lo, mid) \o FilterRange(df, keep, mid + 1, hi)

\* df[keep]: the rows whose entry in the boolean column keep is true
Filter(df, keep) == FilterRange(df, keep, 1, Len(df))

\* df.sort_values('日期').reset_index(drop=True); rows of equal date keep
\* their order here (pandas' default quicksort leaves that order open)
sort_values(df) ==
    LET n == Len(df)
        rank == AsSeq([i \in 1..n |->
                    Cardinality({j \in 1..n : \/ df[j].date < df[i].date
                                              \/ df[j].date = df[i].date /\ j <= i})])
    IN  AsSeq([k \in 1..n |-> df[CHOOSE i \in 1..n : rank[i] = k]])

\* df.tail(k)
tail(df, k) == SubSeq(df, IF Len(df) > k THEN Len(df) - k + 1 ELSE 1, Len(df))

\* df['收盘'].rolling(window=120).mean(): NaN until a full window exists
rolling_mean(df, w) ==
    LET closes == AsSeq([i \in 1..Len(df) |-> df[i].close])
    IN  AsSeq([i \in 1..Len(df) |->
            IF i < w THEN <<NaN, 1>> ELSE Rat(SumRange(closes, i - w + 1, i), w)])

\* df.dropna(): a row with a missing cell in any column goes
HasNaN(r) ==
    \/ r.open = NaN \/ r.high = NaN \/ r.low = NaN
    \/ r.close = NaN \/ r.volume = NaN \/ r.ma[1] = NaN

dropna(df) == Filter(df, AsSeq([i \in 1..Len(df) |-> ~HasNaN(df[i])]))

\* round(x, k) as an integer number of 10^-k; a tie goes up (Python rounds the
\* binary float, where an exact tie is an accident of representation)
Round(r, k) == (Fix(r, k + 1) + 5) \div 10

-----------------------------------------------------------------------------
(* Metrics shared by both pipelines (the two files compute them alike)     *)

\* df['成交额'] = df['成交量'] * df['收盘'] and the mean over recent_20_days,
\* in VolumeLot currency units
avg_turnover_of(recent) ==
    Rat(SumRange(AsSeq([i \in 1..Len(recent) |-> recent[i].volume * recent[i].close]),
                 1, Len(recent)),
        Len(recent))

\* a threshold in currency units, in VolumeLot currency units
InLots(amount) == Rat(amount, VolumeLot)

\* df['MA120'] = rolling mean; df = df.dropna().reset_index(drop=True)
with_ma120(df) ==
    LET ma == rolling_mean(df, MAWindow)
    IN  dropna(AsSeq([i \in 1..Len(df) |-> [ma |-> ma[i]] @@ df[i]]))

\* df['前收盘'] = df['收盘'].shift(1); df.loc[0, '前收盘'] = df.loc[0, '开盘']
prev_close(df, i) == IF i = 1 THEN df[1].open ELSE df[i - 1].close

\* df['日振幅'].mean() * 100, 日振幅 = (最高 - 最低) / 前收盘
avg_daily_amplitude_of(df) ==
    LET amp == AsSeq([i \in 1..Len(df) |->
                         Rat(df[i].high - df[i].low, prev_close(df, i))])
    IN  RMul(RDiv(RSumRange(amp, 1, Len(df)), RInt(Len(df))), RInt(100))

\* 120 * MA120 of row i: the window's sum of closes
MASum(df, i) == df[i].ma[1] * (MAWindow \div df[i].ma[2])

\* floor of the mean of the window sums
MeanMASum(df) ==
    SumRange(AsSeq([i \in 1..Len(df) |-> MASum(df, i)]), 1, Len(df)) \div Len(df)

\* df['MA120'].mean()
ma120_mean_of(df) ==
    Rat(SumRange(AsSeq([i \in 1..Len(df) |-> MASum(df, i)]), 1, Len(df)), MAWindow * Len(df))

\* df['MA120'].std() / df['MA120'].mean(), in 10^-4: the sample variance of
\* the window sums about their floored mean, its integer square root to one
\* decimal, over the floored mean
ma120_cv_of(df) ==
    LET n  == Len(df)
        m0 == MeanMASum(df)
        d  == AsSeq([i \in 1..n |-> MASum(df, i) - m0])
        s1 == SumRange(d, 1, n)
        s2 == SumRange(AsSeq([i \in 1..n |-> d[i] * d[i]]), 1, n)
        var == (s2 - (s1 * s1) \div n) \div (n - 1)
    IN  (ISqrt(var * 100) * 1000) \div m0

\* slope of linregress(np.arange(len(df)), MA120): Sxy / Sxx, both centred
slope_of(df) ==
    LET n   == Len(df)
        m0  == MeanMASum(df)
        sxy == SumRange(AsSeq([i \in 1..n |->
                                   (2 * (i - 1) - (n - 1)) * (MASum(df, i) - m0)]), 1, n)
    IN  RMul(Rat(sxy, n * (n * n - 1)), <<12, 2 * MAWindow>>)

\* abs(slope) / df['MA120'].mean() * 100
trend_slope_pct_of(df) ==
    RMul(RDiv(RAbs(slope_of(df)), ma120_mean_of(df)), RInt(100))

\* abs(df['收盘'] - df['前收盘']).sum()
path_length_of(df) ==
    SumRange(AsSeq([i \in 1..Len(df) |-> Abs(df[i].close - prev_close(df, i))]),
             1, Len(df))

\* the displacement taken from the first bar's previous close
net_displacement_of_prev(df) == Abs(df[Len(df)].close - prev_close(df, 1))

\* abs(df['收盘'].iloc[-1] - df['收盘'].iloc[0])
net_displacement_of(df) == Abs(df[Len(df)].close - df[1].close)

\* 1.0 - (net_displacement / (path_length + 0.0001))
choppiness_of(df) ==
    RSub(RInt(1),
         RDiv(RInt(net_displacement_of(df)), RAdd(RInt(path_length_of(df)), Epsilon)))

\* round((avg_daily_amplitude * choppiness) / (penalty + 0.1), 2) in 10^-2,
\* from the amplitude in 10^-3 and choppiness, cv and slope in 10^-4
grid_score_of(amp, chop, cv4, slope) ==
    LET penalty4 == cv4 + Fix(slope, 4) + Fix(PenaltyFloor, 4)
    IN  Round(Rat(Fix(amp, 3) * Fix(chop, 4), 10 * penalty4), 0)

\* the dict both pipelines return; turnover is the f"{avg / 1e8:.2f}" string
\* as a number of 10^-2
MetricsRecord(amp, chop, avg_turnover, cv4, slope) ==
    [ok          |-> TRUE,
     stage       |-> "record",
     score       |-> grid_score_of(amp, chop, cv4, slope),
     amplitude   |-> Round(amp, 2),
     choppiness  |-> Round(chop, 3),
     turnover    |-> Round(RMul(avg_turnover, Rat(VolumeLot, 100000000)), 2),
     ma120_cv    |-> cv4,
     trend_slope |-> Round(slope, 4)]

\* return None, at the named check
Rejected(stage) == [ok |-> FALSE, stage |-> stage]

-----------------------------------------------------------------------------
(* find_grid_target.py                                                     *)

\* The History Provider's answer is the argument resp: it raised, returned
\* None, or returned a table (resp.rows, possibly empty).
get_etf_hist_sina_safe(resp, start_str, end_str) ==
    IF resp.kind = "table" /\ resp.rows # <<>>
    THEN LET numeric == AsSeq([i \in 1..Len(resp.rows) |-> CoerceRow(resp.rows[i])])
             present == Filter(numeric,
                               AsSeq([i \in 1..Len(numeric) |->
                                         numeric[i].close # NaN /\ numeric[i].volume # NaN]))
         IN  [ok |-> TRUE,
              df |-> Filter(present,
                            AsSeq([i \in 1..Len(present) |->
                                      present[i].date >= start_str /\ present[i].date <= end_str]))]
    ELSE None

\* the gate with <= for <
etf_liquidity_veto_inclusive(avg_turnover) ==
    RLeq(avg_turnover, InLots(ETF_MIN_AVG_TURNOVER))

\* if avg_turnover < 50000000: return None
etf_liquidity_veto(avg_turnover) == RLess(avg_turnover, InLots(ETF_MIN_AVG_TURNOVER))

\* the check against the other window's length
etf_too_few_ma_points_short(df) == Len(df) < LiquidityWindow

\* if len(df) < 120: return None
etf_too_few_ma_points(df) == Len(df) < MAWindow

\* if avg_daily_amplitude < 1.5: return None
etf_amplitude_veto(avg_daily_amplitude) ==
    RLess(avg_daily_amplitude, ETF_MIN_DAILY_AMPLITUDE)

calculate_grid_metrics(hist) ==
    LET sorted == sort_values(hist)
        recent_20_days == tail(sorted, LiquidityWindow)
    IN  IF Len(recent_20_days) < LiquidityWindow THEN Rejected("window")
        ELSE LET avg_turnover == avg_turnover_of(recent_20_days) IN
        IF etf_liquidity_veto(avg_turnover) THEN Rejected("liquidity")
        ELSE LET df == with_ma120(sorted) IN
        IF etf_too_few_ma_points(df) THEN Rejected("history")
        ELSE LET avg_daily_amplitude == avg_daily_amplitude_of(df) IN
        IF etf_amplitude_veto(avg_daily_amplitude) THEN Rejected("amplitude")
        ELSE MetricsRecord(avg_daily_amplitude, choppiness_of(df), avg_turnover,
                           ma120_cv_of(df), trend_slope_pct_of(df))

-----------------------------------------------------------------------------
(* find_grid_target_stock.py                                               *)

get_stock_hist_sina_safe(resp, start_str, end_str) ==
    IF resp.kind = "table" /\ resp.rows # <<>>
    THEN LET numeric == AsSeq([i \in 1..Len(resp.rows) |-> CoerceRow(resp.rows[i])])
             present == Filter(numeric,
                               AsSeq([i \in 1..Len(numeric) |->
                                         numeric[i].close # NaN /\ numeric[i].volume # NaN]))
         IN  [ok |-> TRUE,
              df |-> Filter(present,
                            AsSeq([i \in 1..Len(present) |->
                                      present[i].date >= start_str /\ present[i].date <= end_str]))]
    ELSE None

\* if avg_turnover < MIN_AVG_TURNOVER: return None
stock_liquidity_veto(avg_turnover) == RLess(avg_turnover, InLots(MIN_AVG_TURNOVER))

\* if len(df) < 120: return None
stock_too_few_ma_points(df) == Len(df) < MAWindow

\* if trend_slope_pct > MAX_TREND_SLOPE: return None
stock_trend_veto(trend_slope_pct) == RLess(MAX_TREND_SLOPE, trend_slope_pct)

\* if avg_daily_amplitude < MIN_DAILY_AMPLITUDE: return None
stock_amplitude_veto(avg_daily_amplitude) ==
    RLess(avg_daily_amplitude, MIN_DAILY_AMPLITUDE)

\* the floor left out
stock_choppiness_veto_off(choppiness) == FALSE

\* if choppiness < MIN_CHOPPINESS: return None
stock_choppiness_veto(choppiness) == RLess(choppiness, MIN_CHOPPINESS)

calculate_stock_grid_metrics(hist) ==
    LET sorted == sort_values(hist)
        recent_20_days == tail(sorted, LiquidityWindow)
    IN  IF Len(recent_20_days) < LiquidityWindow THEN Rejected("window")
        ELSE LET avg_turnover == avg_turnover_of(recent_20_days) IN
        IF stock_liquidity_veto(avg_turnover) THEN Rejected("liquidity")
        ELSE LET df == with_ma120(sorted) IN
        IF stock_too_few_ma_points(df) THEN Rejected("history")
        ELSE LET trend_slope_pct == trend_slope_pct_of(df) IN
        IF stock_trend_veto(trend_slope_pct) THEN Rejected("trend")
        ELSE LET avg_daily_amplitude == avg_daily_amplitude_of(df) IN
        IF stock_amplitude_veto(avg_daily_amplitude) THEN Rejected("amplitude")
        ELSE LET choppiness == choppiness_of(df) IN
        IF stock_choppiness_veto(choppiness) THEN Rejected("choppiness")
        ELSE MetricsRecord(avg_daily_amplitude, choppiness, avg_turnover,
                           ma120_cv_of(df), trend_slope_pct)

-----------------------------------------------------------------------------
(* Both scans: the date window                                             *)

\* datetime.now() as a day number; '%Y%m%d' strings order as the days do
Today == 2000

end_str == Today
start_str == Today - MIN_YEARS * DaysPerYear

\* len(hist_df) >= (MIN_YEARS * 240) * 0.9
LongEnough(df) == 10 * Len(df) >= 9 * (MIN_YEARS * TradingDaysPerYear)

-----------------------------------------------------------------------------
(* The History Provider: the answers the model draws from                  *)
(*                                                                         *)
(* A table is described by its parameters: n rows on consecutive days, the *)
(* closes following a shape, a high-low spread on every `every`-th day, a  *)
(* volume alternating between vol and vol + volAlt.                        *)

CloseAt(p, k) ==
    CASE p.shape = "flat"   -> p.base
      [] p.shape = "zigzag" -> p.base + p.step * (k % 2)
      [] p.shape = "stair"  -> p.base + p.step * ((k - 1) \div p.period)
      [] p.shape = "jump"   -> p.base + (IF k = p.n THEN p.step ELSE 0)

OpenAt(p, k) == IF k = 1 THEN p.base ELSE CloseAt(p, k - 1)

\* the day of the k-th row in date order: "early"/"late" tables stick out of
\* the window by Overhang rows, a "dup" table repeats its first date
Overhang == 3

DateAt(p, k) ==
    LET first == CASE p.shift = "in"    -> start_str
                   [] p.shift = "early" -> start_str - Overhang
                   [] p.shift = "late"  -> end_str - p.n + 1 + Overhang
    IN  first + (IF p.order = "dup" /\ k >= 2 THEN k - 2 ELSE k - 1)

\* the row with a defect is the third from the end
Defective(p, k) == k = p.n - 2

RowAt(p, k) ==
    LET o == OpenAt(p, k)
        c == CloseAt(p, k)
        s == IF k % p.every = 0 THEN p.spread ELSE 0
    IN  [date   |-> DateAt(p, k),
         open   |-> IF p.defect = "openNaN" /\ Defective(p, k) THEN NaN ELSE o,
         high   |-> (IF o > c THEN o ELSE c) + s,
         low    |-> IF o < c THEN o ELSE c,
         close  |-> IF p.defect = "closeNaN" /\ Defective(p, k) THEN NaN ELSE c,
         volume |-> IF p.defect = "volumeJunk" /\ Defective(p, k) THEN RawJunk
                    ELSE p.vol + p.volAlt * (k % 2)]

\* the table as the provider hands it over: in date order, or newest first
ProviderRows(p) ==
    AsSeq([i \in 1..p.n |-> RowAt(p, IF p.order = "desc" THEN p.n + 1 - i ELSE i)])

Response(p) ==
    IF p.kind = "table" THEN [kind |-> "table", rows |-> ProviderRows(p)]
    ELSE [kind |-> p.kind]

Body(shape, base, step, period, spread, every) ==
    [shape |-> shape, base |-> base, step |-> step, period |-> period,
     spread |-> spread, every |-> every]

Table(body, n, vol, volAlt, order, shift, defect) ==
    [kind |-> "table", n |-> n, vol |-> vol, volAlt |-> volAlt, order |-> order,
     shift |-> shift, defect |-> defect] @@ body

FlatQuiet == Body("flat", 5, 0, 1, 0, 1)
FlatWide  == Body("flat", 100, 0, 1, 3, 1)
FlatMid   == Body("flat", 200, 0, 1, 3, 1)
FlatTight == Body("flat", 100, 0, 1, 1, 1)
ZigZag    == Body("zigzag", 5, 1, 1, 0, 1)
Stair     == Body("stair", 5, 1, 40, 1, 2)
Jump      == Body("jump", 5, 1, 1, 1, 2)

Bodies == {FlatQuiet, FlatWide, FlatMid, FlatTight, ZigZag, Stair, Jump}

PipeLengths == {19, 20, 130, 238, 239, 240, 260}

PipeVolumes == {<<99, 0>>, <<100, 0>>, <<399, 0>>, <<400, 0>>, <<500, 0>>, <<90, 20>>}

Variants ==
    {<<"desc", "in", "none">>, <<"dup", "in", "none">>, <<"asc", "early", "none">>,
     <<"asc", "late", "none">>, <<"asc", "in", "closeNaN">>,
     <<"asc", "in", "volumeJunk">>, <<"asc", "in", "openNaN">>}

NoTable == {[kind |-> "raise"], [kind |-> "none"], [kind |-> "empty"]}

PipeAnswers ==
    NoTable
    \cup {Table(b, n, v[1], v[2], "asc", "in", "none") :
             b \in Bodies, n \in PipeLengths, v \in PipeVolumes}
    \cup {Table(b, n, 500, 0, x[1], x[2], x[3]) :
             b \in {FlatQuiet, ZigZag}, n \in {22, 241}, x \in Variants}

-----------------------------------------------------------------------------
(* One instrument through fetch and metrics                                *)

NoFile == <<"no file">>

EmptyFrame == [pattern |-> <<>>, total |-> 0]

ScanIdle ==
    /\ listing = [kind |-> "raise"]
    /\ spot = EmptyFrame
    /\ count = 0
    /\ results = <<>>
    /\ valid_count = 0
    /\ calls = <<>>
    /\ progress = <<>>
    /\ final_df = None
    /\ csv = NoFile

PipeInit ==
    /\ mode = "pipe"
    /\ cls \in {"etf", "stock"}
    /\ prof \in PipeAnswers
    /\ pc = "asked"
    /\ hist_df = None
    /\ metrics = None
    /\ ScanIdle

PipeFetch ==
    /\ mode = "pipe" /\ pc = "asked"
    /\ hist_df' = IF cls = "etf"
                  THEN get_etf_hist_sina_safe(Response(prof), start_str, end_str)
                  ELSE get_stock_hist_sina_safe(Response(prof), start_str, end_str)
    /\ pc' = "fetched"
    /\ UNCHANGED <<mode, cls, prof, metrics, listing, spot, count, results,
                   valid_count, calls, progress, final_df, csv>>

PipeCalculate ==
    /\ mode = "pipe" /\ pc = "fetched" /\ hist_df.ok
    /\ metrics' = IF cls = "etf" THEN calculate_grid_metrics(hist_df.df)
                  ELSE calculate_stock_grid_metrics(hist_df.df)
    /\ pc' = "calculated"
    /\ UNCHANGED <<mode, cls, prof, hist_df, listing, spot, count, results,
                   valid_count, calls, progress, final_df, csv>>

PipeNext == PipeFetch \/ PipeCalculate

PipeSpec == PipeInit /\ [][PipeNext]_vars

-----------------------------------------------------------------------------
(* Names and codes.  A name is a sequence of characters, a Chinese         *)
(* character written as its pinyin syllable; a code is a sequence of       *)
(* characters.                                                             *)

\* keyword in name
Contains(name, keyword) ==
    \E i \in 1..(Len(name) - Len(keyword) + 1) :
        SubSeq(name, i, i + Len(keyword) - 1) = keyword

\* str.startswith((p1, p2, ..))
StartsWith(code, prefixes) == Len(code) > 0 /\ code[1] \in prefixes

\* the keyword list without its last entry
EtfKeywords_short ==
    {<<"huo", "bi">>, <<"zhai">>, <<"li", "cai">>, <<"huang", "jin">>, <<"tian", "yi">>}

\* ["货币", "债", "理财", "黄金", "添益", "快线"]
EtfKeywords ==
    {<<"huo", "bi">>, <<"zhai">>, <<"li", "cai">>, <<"huang", "jin">>,
     <<"tian", "yi">>, <<"kuai", "xian">>}

\* any(keyword in name for keyword in [...])
etf_excluded(name, code) == \E keyword \in EtfKeywords : Contains(name, keyword)

\* ["ST", "退"]
StockKeywords == {<<"S", "T">>, <<"tui">>}

\* any(keyword in name ...) or code.startswith(('8', '4'))
stock_excluded(name, code) ==
    \/ \E keyword \in StockKeywords : Contains(name, keyword)
    \/ StartsWith(code, {"8", "4"})

\* the symbol handed to ak.fund_etf_hist_sina
etf_sina_symbol(code) ==
    IF StartsWith(code, {"s"}) THEN code
    ELSE IF StartsWith(code, {"5", "7"}) THEN <<"s", "h">> \o code
    ELSE <<"s", "z">> \o code

\* str(code).zfill(6)
zfill6(code) ==
    IF Len(code) >= 6 THEN code ELSE AsSeq([i \in 1..(6 - Len(code)) |-> "0"]) \o code

NoSymbol == <<>>

\* the symbol handed to ak.stock_zh_a_daily, or NoSymbol: return None
stock_symbol(code) ==
    LET code_str == zfill6(code)
    IN  IF StartsWith(code_str, {"6", "9"}) THEN <<"s", "h">> \o code_str
        ELSE IF StartsWith(code_str, {"0", "3"}) THEN <<"s", "z">> \o code_str
        ELSE NoSymbol

-----------------------------------------------------------------------------
(* The Instrument Listing Provider                                         *)

\* one row of the listing, with the History Provider's answer for it
Instrument(name, code, answer) == [name |-> name, code |-> code, answer |-> answer]

Digits6(a, b, c, d, e, f) == <<a, b, c, d, e, f>>

\* the fewest rows LongEnough accepts
MinBars == (9 * MIN_YEARS * TradingDaysPerYear) \div 10

Lively  == Table(ZigZag, MinBars, 500, 0, "asc", "in", "none")
Steady  == Table(FlatWide, MinBars + 2, 400, 0, "desc", "in", "none")
Mild    == Table(FlatMid, MinBars, 100, 0, "asc", "in", "none")
Thin    == Table(ZigZag, MinBars, 9, 0, "asc", "in", "none")
Short   == Table(ZigZag, MinBars - 1, 500, 0, "asc", "in", "none")
Clipped == Table(ZigZag, MinBars + 2, 500, 0, "asc", "early", "none")

ScanAnswers == NoTable \cup {Lively, Steady, Mild, Thin, Short, Clipped}

Plain == <<"ke", "ji">>

Named ==
    {Instrument(<<"guo", "zhai", "E", "T", "F">>, Digits6("5", "1", "1", "0", "1", "0"), Lively),
     Instrument(<<"huo", "bi", "E", "T", "F">>, Digits6("5", "1", "1", "9", "9", "0"), Lively),
     Instrument(<<"yin", "hang", "li", "cai">>, Digits6("5", "1", "1", "8", "0", "0"), Lively),
     Instrument(<<"huang", "jin", "E", "T", "F">>, Digits6("5", "1", "8", "8", "8", "0"), Lively),
     Instrument(<<"hua", "bao", "tian", "yi">>, Digits6("5", "1", "1", "9", "9", "1"), Steady),
     Instrument(<<"yin", "hua", "kuai", "xian">>, Digits6("5", "1", "1", "8", "8", "1"), Steady),
     Instrument(<<"*", "S", "T", "hai", "run">>, Digits6("6", "0", "0", "4", "0", "1"), Lively),
     Instrument(<<"tui", "shi", "da", "kong">>, Digits6("6", "0", "0", "7", "4", "7"), Steady)}

Coded ==
    {Instrument(Plain, Digits6("8", "3", "0", "7", "9", "9"), Lively),
     Instrument(Plain, Digits6("4", "3", "0", "0", "4", "7"), Steady),
     Instrument(Plain, Digits6("2", "0", "0", "0", "0", "2"), Lively),
     Instrument(Plain, <<"s", "h">> \o Digits6("5", "1", "0", "5", "0", "0"), Steady),
     Instrument(Plain, <<"1">>, Lively)}

Answered ==
    {Instrument(Plain, Digits6("5", "1", "0", "3", "0", "0"), [kind |-> "raise"]),
     Instrument(Plain, Digits6("6", "0", "0", "0", "0", "0"), [kind |-> "raise"]),
     Instrument(Plain, Digits6("9", "0", "0", "9", "0", "1"), [kind |-> "none"]),
     Instrument(Plain, Digits6("0", "0", "0", "0", "0", "2"), [kind |-> "empty"]),
     Instrument(Plain, Digits6("0", "0", "0", "0", "0", "1"), Short),
     Instrument(Plain, Digits6("3", "0", "0", "0", "5", "9"), Clipped),
     Instrument(Plain, Digits6("6", "0", "0", "5", "1", "9"), Thin),
     Instrument(Plain, Digits6("1", "5", "9", "9", "1", "5"), Mild),
     Instrument(Plain, Digits6("3", "0", "0", "7", "5", "0"), Lively),
     Instrument(Plain, Digits6("6", "0", "1", "3", "1", "8"), Steady)}

Instruments == Named \cup Coded \cup Answered

\* what the even rows of a two-instrument listing are drawn from
Fillers ==
    {Instrument(<<"guo", "zhai", "E", "T", "F">>, Digits6("5", "1", "1", "0", "1", "0"), Lively),
     Instrument(<<"*", "S", "T", "hai", "run">>, Digits6("6", "0", "0", "4", "0", "1"), Lively),
     Instrument(Plain, Digits6("6", "0", "0", "0", "0", "0"), [kind |-> "raise"]),
     Instrument(Plain, Digits6("6", "0", "1", "3", "1", "8"), Steady)}

\* a listing repeats a pattern of one or two instruments
Patterns == {<<a>> : a \in Instruments} \cup {<<a, b>> : a \in Instruments, b \in Fillers}

MaxSmallListing == 3
MaxRounds == 1

ProgressEvery(c) == IF c = "etf" THEN EtfProgressEvery ELSE StockProgressEvery

\* listing sizes: the small ones, and those around a multiple of the interval
ListingSizes(c) ==
    (1..MaxSmallListing)
    \cup {m * ProgressEvery(c) + d : m \in 1..MaxRounds, d \in {-1, 0, 1}}

ListingAnswers(c) ==
    {[kind |-> "raise"], [kind |-> "table", pattern |-> <<>>, total |-> 0]}
    \cup {[kind |-> "table", pattern |-> q, total |-> t] :
             q \in Patterns, t \in ListingSizes(c)}

\* a listing call that answers a failure with a one-row table
get_etf_list_sina_fallback(answer) ==
    IF answer.kind = "table" THEN [pattern |-> answer.pattern, total |-> answer.total]
    ELSE [pattern |-> <<Instrument(Plain, Digits6("5", "1", "0", "3", "0", "0"), Steady)>>,
          total |-> 1]

\* get_etf_list_sina(): the table, or pd.DataFrame() when the call raised
get_etf_list_sina(answer) ==
    IF answer.kind = "table" THEN [pattern |-> answer.pattern, total |-> answer.total]
    ELSE EmptyFrame

\* get_stock_list_safe()
get_stock_list_safe(answer) ==
    IF answer.kind = "table" THEN [pattern |-> answer.pattern, total |-> answer.total]
    ELSE EmptyFrame

\* the i-th row of iterrows()
RowOf(df, i) == df.pattern[((i - 1) % Len(df.pattern)) + 1]

-----------------------------------------------------------------------------
(* The scan loops: scan_etf_for_grid and scan_stocks_for_grid              *)

Classes == {"etf", "stock"}

\* hist_df = get_etf_hist_sina_safe(..); metrics = calculate_grid_metrics(hist_df)
\* when hist_df is not None and long enough
etf_metrics_or_none(answer) ==
    LET hist == get_etf_hist_sina_safe(Response(answer), start_str, end_str)
    IN  IF hist.ok /\ LongEnough(hist.df) THEN calculate_grid_metrics(hist.df) ELSE None

stock_metrics_or_none(answer) ==
    LET hist == get_stock_hist_sina_safe(Response(answer), start_str, end_str)
    IN  IF hist.ok /\ LongEnough(hist.df) THEN calculate_stock_grid_metrics(hist.df)
        ELSE None

\* the loop body's result for each answer of the provider, computed once
MetricsTable ==
    [c \in Classes |->
        [a \in ScanAnswers |->
            IF c = "etf" THEN etf_metrics_or_none(a) ELSE stock_metrics_or_none(a)]]

Excluded(c, row) ==
    IF c = "etf" THEN etf_excluded(row.name, row.code)
    ELSE stock_excluded(row.name, row.code)

SymbolOf(c, row) == IF c = "etf" THEN etf_sina_symbol(row.code) ELSE stock_symbol(row.code)

\* metrics of the row at hand: None without a provider call when the stock
\* code is of no known exchange
MetricsOf(c, row) ==
    IF SymbolOf(c, row) = NoSymbol THEN None ELSE MetricsTable[c][row.answer]

\* if count % 50 == 0 or count == total_etf / if count % 100 == 0
ProgressDue(c, n, total) ==
    IF c = "etf" THEN n % EtfProgressEvery = 0 \/ n = total
    ELSE n % StockProgressEvery = 0

\* metrics['代码'] = code; metrics['名称'] = name; `row` is the listing row the
\* record came from (bookkeeping of the model, not a column)
RecordOf(m, row, i) ==
    [code |-> row.code, name |-> row.name, row |-> i, score |-> m.score,
     amplitude |-> m.amplitude, choppiness |-> m.choppiness, turnover |-> m.turnover,
     ma120_cv |-> m.ma120_cv, trend_slope |-> m.trend_slope]

\* the place each record takes when ordered by score, highest first; records
\* of equal score keep their order here (pandas leaves that order open)
ScoreRanks(res) ==
    AsSeq([i \in 1..Len(res) |->
              Cardinality({j \in 1..Len(res) : \/ res[j].score > res[i].score
                                               \/ res[j].score = res[i].score /\ j <= i})])

\* the places by ascending=True
ScoreRanksAscending(res) ==
    AsSeq([i \in 1..Len(res) |->
              Cardinality({j \in 1..Len(res) : \/ res[j].score < res[i].score
                                               \/ res[j].score = res[i].score /\ j <= i})])

\* reset_index(drop=True): the records at their places
Place(res, rank) ==
    AsSeq([k \in 1..Len(res) |-> res[CHOOSE i \in 1..Len(res) : rank[i] = k]])

\* the sort with ascending=True
sort_by_score_ascending(res) ==
    CHOOSE sorted \in {Place(res, rank) : rank \in {ScoreRanksAscending(res)}} : TRUE

\* res_df.sort_values(score, ascending=False).reset_index(drop=True)
sort_by_score(res) ==
    CHOOSE sorted \in {Place(res, rank) : rank \in {ScoreRanks(res)}} : TRUE

\* if count > MAX_SCAN_COUNT: break (the stock scan only)
BreakDue(c, n) == c = "stock" /\ n > MAX_SCAN_COUNT

ScanInit ==
    /\ mode = "scan"
    /\ cls \in Classes
    /\ listing \in ListingAnswers(cls)
    /\ pc = "list"
    /\ spot = EmptyFrame
    /\ count = 0
    /\ results = <<>>
    /\ valid_count = 0
    /\ calls = <<>>
    /\ progress = <<>>
    /\ final_df = None
    /\ csv = NoFile
    /\ prof = [kind |-> "none"]
    /\ hist_df = None
    /\ metrics = None

\* etf_spot = get_etf_list_sina(); if etf_spot.empty: return
GetList ==
    /\ mode = "scan" /\ pc = "list"
    /\ spot' = IF cls = "etf" THEN get_etf_list_sina(listing)
               ELSE get_stock_list_safe(listing)
    /\ pc' = IF spot'.total = 0 THEN "done" ELSE "loop"
    /\ UNCHANGED <<mode, cls, prof, hist_df, metrics, listing, count, results,
                   valid_count, calls, progress, final_df, csv>>

InLoop ==
    /\ mode = "scan" /\ pc = "loop"
    /\ count < spot.total
    /\ ~BreakDue(cls, count + 1)

\* the name filter's continue
ScanSkip ==
    /\ InLoop
    /\ Excluded(cls, RowOf(spot, count + 1))
    /\ count' = count + 1
    /\ UNCHANGED <<mode, cls, pc, prof, hist_df, metrics, listing, spot, results,
                   valid_count, calls, progress, final_df, csv>>

\* the provider call of an iteration, if one is made
CallsAfter(c, row, i, log) ==
    IF SymbolOf(c, row) = NoSymbol THEN log ELSE Append(log, <<i, SymbolOf(c, row)>>)

\* an iteration whose failure leaves the loop
ScanNoRecord_aborts ==
    /\ InLoop
    /\ LET row == RowOf(spot, count + 1) IN
        /\ ~Excluded(cls, row)
        /\ ~MetricsOf(cls, row).ok
        /\ calls' = CallsAfter(cls, row, count + 1, calls)
    /\ count' = count + 1
    /\ pc' = "aggregate"
    /\ UNCHANGED <<mode, cls, prof, hist_df, metrics, listing, spot, results,
                   valid_count, progress, final_df, csv>>

\* an iteration that fetches and appends nothing
ScanNoRecord ==
    /\ InLoop
    /\ LET row == RowOf(spot, count + 1) IN
        /\ ~Excluded(cls, row)
        /\ ~MetricsOf(cls, row).ok
        /\ calls' = CallsAfter(cls, row, count + 1, calls)
    /\ count' = count + 1
    /\ progress' = IF ProgressDue(cls, count + 1, spot.total)
                   THEN Append(progress, count + 1) ELSE progress
    /\ UNCHANGED <<mode, cls, pc, prof, hist_df, metrics, listing, spot, results,
                   valid_count, final_df, csv>>

\* an iteration that fetches and appends the record
ScanRecord ==
    /\ InLoop
    /\ LET row == RowOf(spot, count + 1) IN
        /\ ~Excluded(cls, row)
        /\ MetricsOf(cls, row).ok
        /\ calls' = CallsAfter(cls, row, count + 1, calls)
        /\ results' = Append(results, RecordOf(MetricsOf(cls, row), row, count + 1))
    /\ valid_count' = valid_count + 1
    /\ count' = count + 1
    /\ progress' = IF ProgressDue(cls, count + 1, spot.total)
                   THEN Append(progress, count + 1) ELSE progress
    /\ UNCHANGED <<mode, cls, pc, prof, hist_df, metrics, listing, spot,
                   final_df, csv>>

\* the loop ends: the rows are used up, or the stock scan's break
ScanLoopEnd ==
    /\ mode = "scan" /\ pc = "loop"
    /\ count = spot.total \/ BreakDue(cls, count + 1)
    /\ count' = IF count = spot.total THEN count ELSE count + 1
    /\ pc' = "aggregate"
    /\ UNCHANGED <<mode, cls, prof, hist_df, metrics, listing, spot, results,
                   valid_count, calls, progress, final_df, csv>>

\* res_df.empty: return None
ScanNothing ==
    /\ mode = "scan" /\ pc = "aggregate"
    /\ results = <<>>
    /\ pc' = "done"
    /\ UNCHANGED <<mode, cls, prof, hist_df, metrics, listing, spot, count, results,
                   valid_count, calls, progress, final_df, csv>>

\* sort, to_csv, return final_df
ScanExport ==
    /\ mode = "scan" /\ pc = "aggregate"
    /\ results # <<>>
    /\ final_df' = [ok |-> TRUE, rows |-> sort_by_score(results)]
    /\ csv' = final_df'.rows
    /\ pc' = "done"
    /\ UNCHANGED <<mode, cls, prof, hist_df, metrics, listing, spot, count, results,
                   valid_count, calls, progress>>

Init == ScanInit

Next ==
    \/ GetList
    \/ ScanSkip
    \/ ScanNoRecord
    \/ ScanRecord
    \/ ScanLoopEnd
    \/ ScanNothing
    \/ ScanExport

Spec == Init /\ [][Next]_vars

\* the loop is sequential code: whatever step is enabled is taken
FairSpec == Spec /\ WF_vars(Next)

-----------------------------------------------------------------------------
(* Properties of the scans (Spec, FairSpec)                                *)

Scanning == mode = "scan"

FinalRows == IF final_df.ok THEN final_df.rows ELSE <<>>

\* how many records of the sequence q came from listing row i
RecordsOf(q, i) == Cardinality({k \in 1..Len(q) : q[k].row = i})

\* row i passed the name filter, the fetch, the length check and every gate
Passed(i) ==
    /\ ~Excluded(cls, RowOf(spot, i))
    /\ MetricsOf(cls, RowOf(spot, i)).ok

C1_OneRecordPerPasser(q, n) ==
    \A i \in 1..n : RecordsOf(q, i) = (IF Passed(i) THEN 1 ELSE 0)

\* C1: in both scans no instrument's fetch failure, short history or gate
\* disqualification aborts the scan: every scan reaches its end, every row of
\* the listing is visited, and at every moment the results hold exactly one
\* record for each visited row that passed the name filter, the fetch, the
\* length check and every gate, and none for any other row; so does the
\* table returned.
C1_FailuresNeverAbort ==
    /\ <>(pc = "done")
    /\ [](Scanning /\ pc \in {"loop", "aggregate", "done"} =>
            /\ C1_OneRecordPerPasser(results, count)
            /\ Len(results) <= count)
    /\ [](Scanning /\ pc = "done" /\ spot.total > 0 =>
            /\ count = spot.total
            /\ C1_OneRecordPerPasser(FinalRows, spot.total)
            /\ Len(FinalRows) <= spot.total)

\* a finished scan whose first row failed to fetch and whose later row has a record
C1_Witness ==
    /\ Scanning /\ pc = "done" /\ cls = "etf"
    /\ spot.total >= 2
    /\ RowOf(spot, 1).answer.kind = "raise"
    /\ RecordsOf(FinalRows, 2) = 1

C2_EtfNamed(name) ==
    \E keyword \in {<<"huo", "bi">>, <<"zhai">>, <<"li", "cai">>, <<"huang", "jin">>,
                    <<"tian", "yi">>, <<"kuai", "xian">>} : Contains(name, keyword)

C2_StockNamed(name, code) ==
    \/ Contains(name, <<"S", "T">>) \/ Contains(name, <<"tui">>)
    \/ code[1] = "8" \/ code[1] = "4"

C2_Named(i) ==
    IF cls = "etf" THEN C2_EtfNamed(RowOf(spot, i).name)
    ELSE C2_StockNamed(RowOf(spot, i).name, RowOf(spot, i).code)

\* C2: an instrument whose name contains an excluded keyword (ETF scan: one
\* of the six fund-category keywords; stock scan: "ST" or the delisting
\* marker, or a code starting with '8' or '4') is never fetched: no History
\* Provider call is ever made for it and no record of it is in the results
\* or in the table returned.
C2_ExcludedNeverFetched ==
    Scanning =>
        /\ \A k \in 1..Len(calls) : ~C2_Named(calls[k][1])
        /\ \A k \in 1..Len(results) : ~C2_Named(results[k].row)
        /\ \A k \in 1..Len(FinalRows) : ~C2_Named(FinalRows[k].row)

\* a finished scan that went past an excluded row and fetched another row
C2_Witness ==
    /\ Scanning /\ pc = "done" /\ spot.total >= 2
    /\ C2_Named(1) /\ ~C2_Named(2)
    /\ calls # <<>>

\* C5: when a scan completes with at least one survivor, the table returned
\* and exported is ordered by score descending, and holds the same records,
\* each as often, as the loop collected.
C5_RankedTable ==
    Scanning /\ pc = "done" /\ results # <<>> =>
        /\ final_df.ok
        /\ csv = final_df.rows
        /\ \A k \in 1..(Len(final_df.rows) - 1) :
              final_df.rows[k].score >= final_df.rows[k + 1].score
        /\ Len(final_df.rows) = Len(results)
        /\ \A i \in 1..Len(results) :
              Cardinality({k \in 1..Len(results) : final_df.rows[k] = results[i]})
                  = Cardinality({k \in 1..Len(results) : results[k] = results[i]})

\* a finished scan whose records were collected out of order
C5_Witness ==
    /\ Scanning /\ pc = "done" /\ Len(results) >= 3
    /\ results[1].score < results[2].score
    /\ final_df.ok /\ final_df.rows[1].score > final_df.rows[Len(results)].score

C6_Interval == IF cls = "etf" THEN 50 ELSE 100

\* C6: each time the count of processed instruments reaches a multiple of
\* the progress interval (50 in the ETF scan, 100 in the stock scan) a
\* progress report is emitted for that count, whatever happened to the
\* instrument at that position.
C6_EveryIntervalReported ==
    Scanning /\ count > 0 /\ count % C6_Interval = 0 =>
        /\ progress # <<>>
        /\ progress[Len(progress)] = count

\* C7: if the listing call raises or returns no instruments the scan aborts
\* with no output: no History Provider call, no iteration, no export file,
\* no table returned.
C7_ListingFailureAborts ==
    Scanning /\ (listing.kind = "raise" \/ listing.total = 0) =>
        /\ pc \in {"list", "done"}
        /\ calls = <<>>
        /\ count = 0
        /\ results = <<>>
        /\ csv = NoFile
        /\ final_df = None

\* a scan over after the listing call raised
C7_Witness == Scanning /\ pc = "done" /\ listing.kind = "raise"

-----------------------------------------------------------------------------
(* Properties of one instrument's pipeline (PipeSpec)                      *)

Piped == mode = "pipe" /\ pc = "calculated"

\* the series the pipeline computes on, and what the moving average leaves
Series == sort_values(hist_df.df)
Trimmed == with_ma120(Series)

C3_Threshold == IF cls = "etf" THEN 50000000 ELSE 200000000

\* the sum of volume x close over the last 20 bars of s, volume in lots
C3_TurnoverSum(s) ==
    SumRange(AsSeq([i \in 1..20 |->
                       s[Len(s) - 20 + i].volume * s[Len(s) - 20 + i].close]), 1, 20)

C4_ScenarioA(s) ==
    /\ Len(s) >= 20
    /\ \A i \in 1..Len(s) :
          /\ s[i].open # NaN /\ s[i].high # NaN /\ s[i].low # NaN
          /\ s[i].close = s[1].close
          /\ s[i].high = s[i].low
    /\ C3_TurnoverSum(s) > 20 * (C3_Threshold \div VolumeLot)

\* C4 as stated: the Scenario A series of 130 bars is disqualified at the
\* amplitude gate and not at an earlier stage.
C4_AmplitudeGateAt130 ==
    Piped /\ Len(hist_df.df) = 130 =>
        LET s == Series
        IN  C4_ScenarioA(s) => metrics.stage = "amplitude"

\* C4, amended: a Scenario A series of 20 to 238 bars, the 130-bar one among
\* them, is disqualified at the moving-average history check (fewer than 120
\* moving-average points remain), before any amplitude is computed; from 239
\* bars on it is disqualified at the amplitude gate.
C4_HistoryCheckFirst ==
    Piped =>
        LET s == Series
        IN  C4_ScenarioA(s) =>
                /\ Len(s) <= 238 => metrics.stage = "history"
                /\ Len(s) >= 239 => metrics.stage = "amplitude"

\* the 130-bar Scenario A series, disqualified at the history check
C4_Witness ==
    /\ Piped /\ Len(hist_df.df) = 130
    /\ LET s == Series IN C4_ScenarioA(s)
    /\ metrics.stage = "history"

\* C8: every stock record satisfies mean turnover >= 200,000,000, trend slope
\* <= 0.05, average daily amplitude >= 3.0 and choppiness >= 0.90; every ETF
\* record satisfies mean turnover >= 50,000,000 and amplitude >= 1.5; and an
\* ETF series that passes the liquidity and amplitude gates produces a
\* record whatever its choppiness and slope.
C8_RecordsPassGates ==
    Piped /\ Len(hist_df.df) >= 20 =>
        LET s == Series
            df == with_ma120(s)
            turnover == avg_turnover_of(tail(s, 20))
        IN  /\ cls = "stock" /\ metrics.ok =>
                  /\ RLeq(Rat(200000000, VolumeLot), turnover)
                  /\ RLeq(trend_slope_pct_of(df), <<5, 100>>)
                  /\ RLeq(<<3, 1>>, avg_daily_amplitude_of(df))
                  /\ RLeq(<<90, 100>>, choppiness_of(df))
            /\ cls = "etf" /\ metrics.ok =>
                  /\ RLeq(Rat(50000000, VolumeLot), turnover)
                  /\ RLeq(<<15, 10>>, avg_daily_amplitude_of(df))
            /\ cls = "etf" /\ ~metrics.ok /\ Len(df) >= 120 =>
                  \/ RLess(turnover, Rat(50000000, VolumeLot))
                  \/ RLess(avg_daily_amplitude_of(df), <<15, 10>>)

\* an ETF record of a series too smooth and too steep for the stock scan
C8_Witness ==
    /\ Piped /\ cls = "etf" /\ metrics.ok
    /\ LET df == Trimmed
       IN  /\ RLess(choppiness_of(df), <<90, 100>>)
           /\ RLess(<<5, 100>>, trend_slope_pct_of(df))

C9_Reached == Piped /\ metrics.stage \in {"choppiness", "record"}

C9_PathLength(df) ==
    SumRange(AsSeq([i \in 1..Len(df) |->
                       Abs(df[i].close - (IF i = 1 THEN df[1].open ELSE df[i - 1].close))]),
             1, Len(df))

C9_NetDisplacement(df) == Abs(df[Len(df)].close - df[1].close)

\* 1 - net_displacement / (path_length + 0.0001), in lowest terms
C9_Stated(df) ==
    RSub(<<1, 1>>, RDiv(<<C9_NetDisplacement(df), 1>>,
                        RAdd(<<C9_PathLength(df), 1>>, <<1, 10000>>)))

\* C9: for every series that reaches the choppiness computation with
\* path_length > 0, choppiness is 1 - net_displacement / (path_length +
\* 0.0001), lies in (0, 1], and is 1 exactly when the last close equals the
\* first close.
C9_ChoppinessRange ==
    C9_Reached =>
        LET df == Trimmed
            choppiness == choppiness_of(df)
            stated == C9_Stated(df)
        IN  C9_PathLength(df) > 0 =>
                /\ choppiness = stated
                /\ RLess(<<0, 1>>, choppiness)
                /\ RLeq(choppiness, <<1, 1>>)
                /\ (RLeq(<<1, 1>>, choppiness) <=> df[Len(df)].close = df[1].close)

\* a series that moves and ends where it began
C9_Witness ==
    /\ C9_Reached
    /\ LET df == Trimmed
       IN  /\ C9_PathLength(df) > 0
           /\ df[Len(df)].close = df[1].close
           /\ df[1].open # df[1].close

\* C10: whatever the History Provider returned (any order, rows missing
\* close or volume, dates outside the window, repeated dates), the series
\* the pipeline computes on is strictly increasing by date, lies within the
\* requested window and has no bar with a missing close or volume.
C10_SanitizedSeries ==
    Piped =>
        LET s == Series
        IN  /\ \A i \in 1..(Len(s) - 1) : s[i].date < s[i + 1].date
            /\ \A i \in 1..Len(s) :
                  /\ s[i].date >= start_str /\ s[i].date <= end_str
                  /\ s[i].close # NaN /\ s[i].volume # NaN

====
